---- MODULE Spec2Model ----
(***************************************************************************)
(* A model of the borsh binary codec of this repository: the decoders of   *)
(* borsh/src/de/mod.rs and the derive generators struct_ser, enum_ser and  *)
(* struct_de of borsh-derive-internal.                                     *)
(*                                                                         *)
(* A reader is a byte buffer (a sequence of 0..255) and a position, as     *)
(* std::io::Cursor is.  Every decoder is an operator from (buf, pos) to a  *)
(* result record: Ok carries the value and the position after the value,   *)
(* Err carries the std::io::ErrorKind and the message.  Generated code is  *)
(* a data structure (a list of statements) that a second operator runs.    *)
(***************************************************************************)
EXTENDS Integers, Sequences, FiniteSets, TLC

VARIABLES pc, op, arg, ret

vars == <<pc, op, arg, ret>>

(***************************************************************************)
(* Bounds of the model.                                                    *)
(***************************************************************************)
MaxBuf == 6

\* The byte values buffers are drawn from: zero, one (a flag, a length of
\* one), and 255 (no valid UTF-8, all bits set).
ByteSamples == {0, 1, 255}

RECURSIVE SeqsUpTo(_, _)
SeqsUpTo(S, n) ==
    IF n = 0 THEN {<<>>}
    ELSE LET shorter == SeqsUpTo(S, n - 1)
         IN  shorter \cup {Append(s, x) : s \in {t \in shorter : Len(t) = n - 1}, x \in S}

(***************************************************************************)
(* std::io::Error and Result.                                              *)
(***************************************************************************)
ERROR_NOT_ALL_BYTES_READ == <<"Not all bytes read">>

Ok(v, p) == [ok |-> TRUE, val |-> v, pos |-> p]

Err(k, m, p) == [ok |-> FALSE, kind |-> k, msg |-> m, pos |-> p]

\* Read::read_exact on a Cursor over a slice: n bytes or UnexpectedEof.
read_exact(buf, pos, n) ==
    IF pos + n <= Len(buf)
    THEN Ok(SubSeq(buf, pos + 1, pos + n), pos + n)
    ELSE Err("UnexpectedEof", <<"failed to fill whole buffer">>, pos)

(***************************************************************************)
(* Unsigned integers wider than a byte.  Integers here are 32-bit and      *)
(* signed, so a u16..u128 value is kept as a natural number in base        *)
(* 256: its digits, most significant first, without leading zeros (zero is *)
(* the empty sequence).  Equal numbers are equal sequences.                *)
(***************************************************************************)
RECURSIVE Reverse(_)
Reverse(s) == IF s = <<>> THEN <<>> ELSE Append(Reverse(Tail(s)), Head(s))

RECURSIVE Normalize(_)
Normalize(d) == IF d # <<>> /\ Head(d) = 0 THEN Normalize(Tail(d)) ELSE d

RECURSIVE Pad(_, _)
Pad(d, n) == IF Len(d) >= n THEN d ELSE Pad(<<0>> \o d, n)

RECURSIVE ToBig(_)
ToBig(i) == IF i = 0 THEN <<>> ELSE Append(ToBig(i \div 256), i % 256)

RECURSIVE ToInt(_)
ToInt(d) == IF d = <<>> THEN 0 ELSE 256 * ToInt(SubSeq(d, 1, Len(d) - 1)) + d[Len(d)]

\* i < d, for a machine-size counter i and a number d.
Below(i, d) == IF Len(d) > 3 THEN TRUE ELSE i < ToInt(d)

\* a > b for two byte strings of one length, most significant byte first.
RECURSIVE GreaterBE(_, _)
GreaterBE(a, b) ==
    IF a = <<>> THEN FALSE
    ELSE IF Head(a) # Head(b) THEN Head(a) > Head(b)
    ELSE GreaterBE(Tail(a), Tail(b))

\* $type::from_le_bytes: the first byte is the least significant.
from_le_bytes(data) == Normalize(Reverse(data))

\* $type::to_le_bytes for a type of n bytes.
to_le_bytes(x, n) == Reverse(Pad(x, n))

(***************************************************************************)
(* Type descriptors: what `Self` is in a BorshDeserialize impl.            *)
(***************************************************************************)
TUnit == [k |-> "unit"]

TU8 == [k |-> "u8"]

TInt(w) == [k |-> "int", w |-> w]

TFloat(w) == [k |-> "float", w |-> w]

TBool == [k |-> "bool"]

TString == [k |-> "String"]

TOption(t) == [k |-> "Option", t |-> t]

TResult(t, e) == [k |-> "Result", t |-> t, e |-> e]

TVec(t) == [k |-> "Vec", t |-> t]

TBTreeSet(t) == [k |-> "BTreeSet", t |-> t]

TBTreeMap(kt, vt) == [k |-> "BTreeMap", kt |-> kt, vt |-> vt]

TArray(n, t) == [k |-> "Array", n |-> n, t |-> t]

(***************************************************************************)
(* Primitive decoders, borsh/src/de/mod.rs.                                *)
(***************************************************************************)
deserialize_unit(buf, pos) == Ok("()", pos)

deserialize_u8(buf, pos) ==
    LET r == read_exact(buf, pos, 1)
    IN  IF r.ok THEN Ok(r.val[1], r.pos) ELSE r

\* impl_for_integer with only the lowest byte taken into the value.
deserialize_integer_low_byte(w, buf, pos) ==
    LET r == read_exact(buf, pos, w)
    IN  IF r.ok THEN Ok(from_le_bytes(<<r.val[1]>>), r.pos) ELSE r

\* impl_for_integer: size_of::<$type>() little-endian bytes.
deserialize_integer(w, buf, pos) ==
    LET r == read_exact(buf, pos, w)
    IN  IF r.ok THEN Ok(from_le_bytes(r.val), r.pos) ELSE r

\* The bit pattern of +infinity, most significant byte first: exponent all
\* ones, mantissa zero (0x7f800000, 0x7ff0000000000000).
INFINITY(w) ==
    IF w = 4 THEN <<127, 128, 0, 0>> ELSE <<127, 240, 0, 0, 0, 0, 0, 0>>

\* is_nan with the sign bit left in the magnitude.
is_nan_signed(bits, w) == GreaterBE(Pad(bits, w), INFINITY(w))

\* f32::is_nan / f64::is_nan on the bit pattern: the magnitude (the bits
\* without the sign bit) is above that of infinity.
is_nan(bits, w) ==
    LET be        == Pad(bits, w)
        magnitude == <<Head(be) % 128>> \o Tail(be)
    IN  GreaterBE(magnitude, INFINITY(w))

\* impl_for_float: from_bits(from_le_bytes(data)), NaN refused.  A float
\* value is kept as its bit pattern, which from_bits preserves.
deserialize_float(w, buf, pos) ==
    LET r == read_exact(buf, pos, w)
    IN  IF ~r.ok THEN r
        ELSE LET res == from_le_bytes(r.val)
             IN  IF is_nan(res, w)
                 THEN Err("InvalidInput",
                          <<"For portability reasons we do not allow to deserialize NaNs.">>,
                          r.pos)
                 ELSE Ok([bits |-> res], r.pos)

deserialize_bool(buf, pos) ==
    LET r == read_exact(buf, pos, 1)
    IN  IF r.ok THEN Ok(r.val[1] = 1, r.pos) ELSE r

(***************************************************************************)
(* String::from_utf8: the well-formed byte sequences of UTF-8.             *)
(***************************************************************************)
IsCont(s, i, lo, hi) == i <= Len(s) /\ s[i] >= lo /\ s[i] <= hi

\* The number of bytes of the well-formed scalar value that starts s, or 0.
Utf8Width(s) ==
    LET b == s[1]
    IN  IF b <= 127 THEN 1
        ELSE IF b >= 194 /\ b <= 223 /\ IsCont(s, 2, 128, 191) THEN 2
        ELSE IF b = 224 /\ IsCont(s, 2, 160, 191) /\ IsCont(s, 3, 128, 191) THEN 3
        ELSE IF b = 237 /\ IsCont(s, 2, 128, 159) /\ IsCont(s, 3, 128, 191) THEN 3
        ELSE IF b >= 225 /\ b <= 239 /\ b # 237
                /\ IsCont(s, 2, 128, 191) /\ IsCont(s, 3, 128, 191) THEN 3
        ELSE IF b = 240 /\ IsCont(s, 2, 144, 191)
                /\ IsCont(s, 3, 128, 191) /\ IsCont(s, 4, 128, 191) THEN 4
        ELSE IF b >= 241 /\ b <= 243 /\ IsCont(s, 2, 128, 191)
                /\ IsCont(s, 3, 128, 191) /\ IsCont(s, 4, 128, 191) THEN 4
        ELSE IF b = 244 /\ IsCont(s, 2, 128, 143)
                /\ IsCont(s, 3, 128, 191) /\ IsCont(s, 4, 128, 191) THEN 4
        ELSE 0

RECURSIVE from_utf8_ok(_)
from_utf8_ok(s) ==
    IF s = <<>> THEN TRUE
    ELSE LET w == Utf8Width(s)
         IN  w > 0 /\ from_utf8_ok(SubSeq(s, w + 1, Len(s)))

(***************************************************************************)
(* Container decoders, borsh/src/de/mod.rs.  A decoder that loops over     *)
(* elements also reports `calls`, the number of element decodes it made.   *)
(***************************************************************************)
RECURSIVE deserialize(_, _, _)

OkCalls(v, p, c) == [ok |-> TRUE, val |-> v, pos |-> p, calls |-> c]

\* `cause` is the kind of the element's error, as the element returned it.
ErrCalls(k, m, p, c, cause) ==
    [ok |-> FALSE, kind |-> k, msg |-> m, pos |-> p, calls |-> c, cause |-> cause]

\* size_of::<T>() == 0.  Sizes in memory, not on the wire: a struct holds
\* its skipped fields too, and an enum of one variant holds no tag.
RECURSIVE zero_sized(_)
zero_sized(t) ==
    CASE t.k = "unit" -> TRUE
      [] t.k = "Array" -> t.n = 0 \/ zero_sized(t.t)
      [] t.k = "Struct" -> \A i \in 1..Len(t.input.fields) : zero_sized(t.input.fields[i].ty)
      [] t.k = "Enum" ->
            /\ Len(t.input.variants) = 1
            /\ \A i \in 1..Len(t.input.variants[1].fields) :
                   zero_sized(t.input.variants[1].fields[i].ty)
      [] OTHER -> FALSE

\* for _ in 0..len { result.push(T::deserialize(reader)?); }
RECURSIVE push_loop(_, _, _, _, _)
push_loop(t, buf, pos, len, result) ==
    IF ~Below(Len(result), len) THEN OkCalls(result, pos, Len(result))
    ELSE LET r == deserialize(t, buf, pos)
         IN  IF r.ok THEN push_loop(t, buf, r.pos, len, Append(result, r.val))
             ELSE ErrCalls(r.kind, r.msg, r.pos, Len(result) + 1, r.kind)

deserialize_Option(t, buf, pos) ==
    LET flag == read_exact(buf, pos, 1)
    IN  IF ~flag.ok THEN flag
        ELSE IF flag.val[1] = 0 THEN Ok([some |-> FALSE], flag.pos)
        ELSE LET r == deserialize(t, buf, flag.pos)
             IN  IF r.ok THEN Ok([some |-> TRUE, v |-> r.val], r.pos) ELSE r

deserialize_Result(t, e, buf, pos) ==
    LET flag == read_exact(buf, pos, 1)
    IN  IF ~flag.ok THEN flag
        ELSE IF flag.val[1] = 0
        THEN LET r == deserialize(t, buf, flag.pos)
             IN  IF r.ok THEN Ok([tag |-> "Ok", v |-> r.val], r.pos) ELSE r
        ELSE LET r == deserialize(e, buf, flag.pos)
             IN  IF r.ok THEN Ok([tag |-> "Err", v |-> r.val], r.pos) ELSE r

deserialize_String(buf, pos) ==
    LET len == deserialize_integer(4, buf, pos)
    IN  IF ~len.ok THEN len
        ELSE LET result == push_loop(TU8, buf, len.pos, len.val, <<>>)
             IN  IF ~result.ok THEN Err(result.kind, result.msg, result.pos)
                 ELSE IF from_utf8_ok(result.val) THEN Ok(result.val, result.pos)
                 ELSE Err("InvalidData", <<"invalid utf-8 sequence">>, result.pos)

\* Vec<T>: one decode and from_raw_parts(p, len, len) when T is zero-sized,
\* the push loop otherwise.
deserialize_Vec(t, buf, pos) ==
    LET len == deserialize_integer(4, buf, pos)
    IN  IF ~len.ok THEN ErrCalls(len.kind, len.msg, len.pos, 0, len.kind)
        ELSE IF zero_sized(t)
        THEN LET r == deserialize(t, buf, len.pos)
             IN  IF ~r.ok THEN ErrCalls(r.kind, r.msg, r.pos, 1, r.kind)
                 ELSE OkCalls([i \in 1..ToInt(len.val) |-> r.val], r.pos, 1)
        ELSE push_loop(t, buf, len.pos, len.val, <<>>)

Range(s) == {s[i] : i \in 1..Len(s)}

\* vec.into_iter().collect() into a BTreeSet.
deserialize_BTreeSet(t, buf, pos) ==
    LET vec == deserialize_Vec(t, buf, pos)
    IN  IF vec.ok THEN Ok(Range(vec.val), vec.pos) ELSE Err(vec.kind, vec.msg, vec.pos)

\* BTreeMap::insert: the value of a key already present is replaced.
insert(map, key, value) ==
    [x \in DOMAIN map \cup {key} |-> IF x = key THEN value ELSE map[x]]

RECURSIVE insert_loop(_, _, _, _, _, _, _)
insert_loop(kt, vt, buf, pos, len, done, result) ==
    IF ~Below(done, len) THEN Ok(result, pos)
    ELSE LET key == deserialize(kt, buf, pos)
         IN  IF ~key.ok THEN Err(key.kind, key.msg, key.pos)
             ELSE LET value == deserialize(vt, buf, key.pos)
                  IN  IF ~value.ok THEN Err(value.kind, value.msg, value.pos)
                      ELSE insert_loop(kt, vt, buf, value.pos, len, done + 1,
                                       insert(result, key.val, value.val))

deserialize_BTreeMap(kt, vt, buf, pos) ==
    LET len == deserialize_integer(4, buf, pos)
    IN  IF ~len.ok THEN len
        ELSE insert_loop(kt, vt, buf, len.pos, len.val, 0, <<>>)

\* impl_arrays: every element's error is wrapped with its index.
RECURSIVE array_loop(_, _, _, _, _)
array_loop(t, buf, pos, n, result) ==
    IF Len(result) = n THEN OkCalls(result, pos, n)
    ELSE LET r == deserialize(t, buf, pos)
         IN  IF r.ok THEN array_loop(t, buf, r.pos, n, Append(result, r.val))
             ELSE ErrCalls("InvalidData",
                           <<"error deserializing element at index", ToString(Len(result))>>
                               \o r.msg,
                           r.pos, Len(result) + 1, r.kind)

deserialize_Array(n, t, buf, pos) ==
    IF n = 0 THEN OkCalls(<<>>, pos, 0) ELSE array_loop(t, buf, pos, n, <<>>)

(***************************************************************************)
(* Network addresses, borsh/src/de/mod.rs.                                 *)
(***************************************************************************)
TSocketAddr == [k |-> "SocketAddr"]

deserialize_Ipv4Addr(buf, pos) == read_exact(buf, pos, 4)

deserialize_Ipv6Addr(buf, pos) == read_exact(buf, pos, 16)

deserialize_SocketAddrV4(buf, pos) ==
    LET ip == deserialize_Ipv4Addr(buf, pos)
    IN  IF ~ip.ok THEN ip
        ELSE LET port == deserialize_integer(2, buf, ip.pos)
             IN  IF ~port.ok THEN port
                 ELSE Ok([ip |-> ip.val, port |-> port.val], port.pos)

deserialize_SocketAddrV6(buf, pos) ==
    LET ip == deserialize_Ipv6Addr(buf, pos)
    IN  IF ~ip.ok THEN ip
        ELSE LET port == deserialize_integer(2, buf, ip.pos)
             IN  IF ~port.ok THEN port
                 ELSE Ok([ip |-> ip.val, port |-> port.val,
                          flowinfo |-> 0, scope_id |-> 0], port.pos)

deserialize_SocketAddr(buf, pos) ==
    LET kind == deserialize_u8(buf, pos)
    IN  IF ~kind.ok THEN kind
        ELSE IF kind.val = 0
        THEN LET a == deserialize_SocketAddrV4(buf, kind.pos)
             IN  IF a.ok THEN Ok([v |-> "V4", addr |-> a.val], a.pos) ELSE a
        ELSE IF kind.val = 1
        THEN LET a == deserialize_SocketAddrV6(buf, kind.pos)
             IN  IF a.ok THEN Ok([v |-> "V6", addr |-> a.val], a.pos) ELSE a
        ELSE Err("InvalidInput",
                 <<"Invalid SocketAddr variant:", ToString(kind.val)>>, kind.pos)

(***************************************************************************)
(* The derive generators, borsh-derive-internal.  An ItemStruct is         *)
(*   [style: "Named" | "Unnamed" | "Unit", fields: a sequence of           *)
(*    [ty, skip], init: whether contains_initialize_with names a method],  *)
(* an ItemEnum is [variants: a sequence of [style, fields]].  The code a   *)
(* generator emits is the list of its statements.                          *)
(***************************************************************************)
TStruct(input) == [k |-> "Struct", input |-> input]

TEnum(input) == [k |-> "Enum", input |-> input]

Field(ty, skip) == [ty |-> ty, skip |-> skip]

\* The fields, by position, in declaration order.
AllFields(fields) == [i \in 1..Len(fields) |-> i]

\* The fields left once `if contains_skip(&field.attrs) { continue; }` has
\* passed over the others.
NotSkipped(fields) == SelectSeq(AllFields(fields), LAMBDA i : ~fields[i].skip)

\* struct_ser with `if contains_skip` also in the arm of Fields::Unnamed.
struct_ser_skip_unnamed(input) ==
    CASE input.style = "Unit" -> <<>>
      [] OTHER -> NotSkipped(input.fields)

\* struct_ser: `body`, the fields serialized, in order.
struct_ser(input) ==
    CASE input.style = "Named" ->
            NotSkipped(input.fields)
      [] input.style = "Unnamed" ->
            AllFields(input.fields)
      [] input.style = "Unit" -> <<>>

\* struct_de with the `if let Some(method_ident)` branch lost.
struct_de_without_init(input) ==
    [return_value |->
        [i \in 1..Len(input.fields) |->
            IF input.style = "Named" /\ input.fields[i].skip THEN "default" ELSE "deserialize"],
     init_method |-> FALSE]

\* struct_de: `return_value`, how each field is built, in order, and the
\* method called on the value when the type names one.
struct_de(input) ==
    [return_value |->
        CASE input.style = "Named" ->
                [i \in 1..Len(input.fields) |->
                    IF input.fields[i].skip THEN "default" ELSE "deserialize"]
          [] input.style = "Unnamed" ->
                [i \in 1..Len(input.fields) |-> "deserialize"]
          [] input.style = "Unit" -> <<>>,
     init_method |-> input.init]

\* enum_ser with the discriminants counted from one.
enum_ser_from_one(input) ==
    [i \in 1..Len(input.variants) |->
        [variant_idx |-> i % 256,
         variant_body |->
            CASE input.variants[i].style = "Unit" -> <<>>
              [] OTHER -> NotSkipped(input.variants[i].fields)]]

\* enum_ser: one match arm per variant, with `variant_idx as u8` and the
\* fields of the variant that are not skipped.
enum_ser(input) ==
    [i \in 1..Len(input.variants) |->
        [variant_idx |-> (i - 1) % 256,
         variant_body |->
            CASE input.variants[i].style = "Unit" -> <<>>
              [] OTHER -> NotSkipped(input.variants[i].fields)]]

\* The decoder of a sum type: the variant the discriminant byte names, its
\* fields built as those of a product are.
enum_de(input) ==
    [i \in 1..Len(input.variants) |->
        [variant_idx |-> i - 1,
         return_value |->
            [j \in 1..Len(input.variants[i].fields) |->
                IF input.variants[i].fields[j].skip THEN "default" ELSE "deserialize"]]]

(***************************************************************************)
(* Running generated code.  A product value is the tuple of its fields, a  *)
(* sum value is [variant, fields].  Running a decoder also yields `trace`, *)
(* the calls it made, in order.                                            *)
(***************************************************************************)
\* Default::default() of a field's type.
default(t) ==
    CASE t.k = "unit" -> "()"
      [] t.k = "u8" -> 0
      [] t.k = "int" -> <<>>
      [] t.k = "bool" -> FALSE
      [] t.k = "Option" -> [some |-> FALSE]
      [] OTHER -> <<>>

Event(ev, i) == [ev |-> ev, field |-> i]

\* `Self { a: deserialize(reader)?, b: Default::default(), ... }`: the
\* fields in order, the first error returned at once.
RECURSIVE run_return_value(_, _, _, _, _, _)
run_return_value(stmts, fields, buf, pos, vals, trace) ==
    LET i == Len(vals) + 1
    IN  IF i > Len(stmts) THEN [ok |-> TRUE, val |-> vals, pos |-> pos, trace |-> trace]
        ELSE IF stmts[i] = "default"
        THEN run_return_value(stmts, fields, buf, pos,
                              Append(vals, default(fields[i].ty)),
                              Append(trace, Event("default", i)))
        ELSE LET r == deserialize(fields[i].ty, buf, pos)
             IN  IF r.ok
                 THEN run_return_value(stmts, fields, buf, r.pos, Append(vals, r.val),
                                       Append(trace, Event("deserialize", i)))
                 ELSE [ok |-> FALSE, kind |-> r.kind, msg |-> r.msg, pos |-> r.pos,
                       cause |-> r.kind,
                       trace |-> Append(trace, Event("deserialize", i))]

\* The deserialize that struct_de generates: with a method named,
\* `let mut return_value = ...; return_value.method(); Ok(return_value)`.
deserialize_Struct(input, buf, pos) ==
    LET code == struct_de(input)
        r    == run_return_value(code.return_value, input.fields, buf, pos, <<>>, <<>>)
    IN  IF ~r.ok THEN r
        ELSE IF code.init_method
        THEN [r EXCEPT !.trace = Append(@, Event("init", 0))]
        ELSE r

\* The deserialize of a sum type: an unknown discriminant is a data error.
deserialize_Enum(input, buf, pos) ==
    LET code        == enum_de(input)
        variant_idx == deserialize_u8(buf, pos)
    IN  IF ~variant_idx.ok THEN variant_idx
        ELSE LET arms == {i \in 1..Len(code) : code[i].variant_idx = variant_idx.val}
             IN  IF arms = {}
                 THEN Err("InvalidData",
                          <<"Unexpected variant index:", ToString(variant_idx.val)>>,
                          variant_idx.pos)
                 ELSE LET i == CHOOSE a \in arms : TRUE
                          r == run_return_value(code[i].return_value,
                                                input.variants[i].fields,
                                                buf, variant_idx.pos, <<>>, <<>>)
                      IN  IF r.ok
                          THEN Ok([variant |-> i, fields |-> r.val], r.pos)
                          ELSE Err(r.kind, r.msg, r.pos)

\* T::deserialize(reader), by the type of T.
deserialize(t, buf, pos) ==
    CASE t.k = "unit" -> deserialize_unit(buf, pos)
      [] t.k = "u8" -> deserialize_u8(buf, pos)
      [] t.k = "int" -> deserialize_integer(t.w, buf, pos)
      [] t.k = "float" -> deserialize_float(t.w, buf, pos)
      [] t.k = "bool" -> deserialize_bool(buf, pos)
      [] t.k = "String" -> deserialize_String(buf, pos)
      [] t.k = "Option" -> deserialize_Option(t.t, buf, pos)
      [] t.k = "Result" -> deserialize_Result(t.t, t.e, buf, pos)
      [] t.k = "Vec" -> deserialize_Vec(t.t, buf, pos)
      [] t.k = "BTreeSet" -> deserialize_BTreeSet(t.t, buf, pos)
      [] t.k = "BTreeMap" -> deserialize_BTreeMap(t.kt, t.vt, buf, pos)
      [] t.k = "Array" -> deserialize_Array(t.n, t.t, buf, pos)
      [] t.k = "SocketAddr" -> deserialize_SocketAddr(buf, pos)
      [] t.k = "Struct" -> deserialize_Struct(t.input, buf, pos)
      [] t.k = "Enum" -> deserialize_Enum(t.input, buf, pos)

\* try_from_slice without the check of the cursor's position.
try_from_slice_unchecked(t, v) ==
    LET result == deserialize(t, v, 0)
    IN  IF ~result.ok THEN [ok |-> FALSE, kind |-> result.kind, msg |-> result.msg]
        ELSE [ok |-> TRUE, val |-> result.val]

\* BorshDeserialize::try_from_slice.
try_from_slice(t, v) ==
    LET result == deserialize(t, v, 0)
    IN  IF ~result.ok THEN [ok |-> FALSE, kind |-> result.kind, msg |-> result.msg]
        ELSE IF result.pos # Len(v)
        THEN [ok |-> FALSE, kind |-> "InvalidData", msg |-> ERROR_NOT_ALL_BYTES_READ]
        ELSE [ok |-> TRUE, val |-> result.val]

(***************************************************************************)
(* The encoders the generated code calls (BorshSerialize of the built-in   *)
(* types) and the run of a generated encoder.                              *)
(***************************************************************************)
RECURSIVE serialize(_, _)

RECURSIVE serialize_all(_, _, _, _)
serialize_all(body, fields, vals, n) ==
    IF n > Len(body) THEN <<>>
    ELSE serialize(fields[body[n]].ty, vals[body[n]])
            \o serialize_all(body, fields, vals, n + 1)

RECURSIVE serialize_elems(_, _)
serialize_elems(t, s) ==
    IF s = <<>> THEN <<>> ELSE serialize(t, Head(s)) \o serialize_elems(t, Tail(s))

\* The serialize that struct_ser generates.
serialize_Struct(input, v) == serialize_all(struct_ser(input), input.fields, v, 1)

\* The serialize that enum_ser generates: the arm of the value's variant.
serialize_Enum(input, v) ==
    LET arm == enum_ser(input)[v.variant]
    IN  <<arm.variant_idx>>
            \o serialize_all(arm.variant_body, input.variants[v.variant].fields, v.fields, 1)

serialize(t, v) ==
    CASE t.k = "unit" -> <<>>
      [] t.k = "u8" -> <<v>>
      [] t.k = "int" -> to_le_bytes(v, t.w)
      [] t.k = "bool" -> <<IF v THEN 1 ELSE 0>>
      [] t.k = "String" -> to_le_bytes(ToBig(Len(v)), 4) \o v
      [] t.k = "Vec" -> to_le_bytes(ToBig(Len(v)), 4) \o serialize_elems(t.t, v)
      [] t.k = "Option" -> IF v.some THEN <<1>> \o serialize(t.t, v.v) ELSE <<0>>
      [] t.k = "Struct" -> serialize_Struct(t.input, v)
      [] t.k = "Enum" -> serialize_Enum(t.input, v)

(***************************************************************************)
(* The state machine.  A behaviour is one call: the initial state holds    *)
(* the operation called (`op`) and its inputs (`arg`), drawn from bounded  *)
(* sets; the operation's action runs it to its end and leaves what it      *)
(* returned in `ret`.  No state is kept between two calls.                 *)
(***************************************************************************)
Call(name, inputs) ==
    /\ pc = "call"
    /\ op = name
    /\ arg \in inputs
    /\ ret = <<>>

Buffers == SeqsUpTo(ByteSamples, MaxBuf)

\* The types try_from_slice is called on.
SliceTypes ==
    {TUnit, TU8, TInt(2), TBool, TFloat(4), TString, TOption(TU8),
     TResult(TU8, TBool), TVec(TU8), TArray(2, TU8)}

InitSlice == Call("try_from_slice", {[t |-> t, v |-> v] : t \in SliceTypes, v \in Buffers})

\* T::try_from_slice(v); `cursor` is what the deserialize inside it
\* returned, with the position it left the cursor at.
TryFromSlice ==
    /\ pc = "call" /\ op = "try_from_slice"
    /\ pc' = "done"
    /\ ret' = [out |-> try_from_slice(arg.t, arg.v),
               cursor |-> deserialize(arg.t, arg.v, 0)]
    /\ UNCHANGED <<op, arg>>

SpecSlice == InitSlice /\ [][TryFromSlice]_vars

(***************************************************************************)
(* C1.  try_from_slice returns Ok(v) exactly when deserialize succeeds     *)
(* with v and leaves the cursor at the end of the buffer; when deserialize *)
(* succeeds and bytes are left unread it fails with InvalidData, "Not all  *)
(* bytes read", and returns no value.                                      *)
(***************************************************************************)
StrictConsumption ==
    (op = "try_from_slice" /\ pc = "done") =>
        /\ ret.out.ok <=> (ret.cursor.ok /\ ret.cursor.pos = Len(arg.v))
        /\ ret.out.ok => ret.out.val = ret.cursor.val
        /\ (ret.cursor.ok /\ ret.cursor.pos < Len(arg.v)) =>
              /\ ~ret.out.ok
              /\ ret.out.kind = "InvalidData"
              /\ ret.out.msg = <<"Not all bytes read">>
              /\ "val" \notin DOMAIN ret.out

\* A string decoded in full with one byte left over, and refused.
StrictConsumptionWitness ==
    /\ op = "try_from_slice"
    /\ pc = "done"
    /\ arg.t.k = "String"
    /\ ret.cursor.ok
    /\ ret.cursor.val = <<1>>
    /\ ret.cursor.pos + 1 = Len(arg.v)
    /\ ~ret.out.ok

(***************************************************************************)
(* The round trip of tests/test_generic_struct.rs:                         *)
(*   struct A<T, F, G> { x: Vec<T>, y: String, b: B<F, G> }                *)
(*   enum B<F, G> { X { f: Vec<F> }, Y(G) }                                *)
(* at A::<String, u64, String>.                                            *)
(***************************************************************************)
MaxSeq == 2

B ==
    TEnum([variants |->
        << [style |-> "Named", fields |-> <<Field(TVec(TInt(8)), FALSE)>>],
           [style |-> "Unnamed", fields |-> <<Field(TString, FALSE)>>] >>])

A ==
    TStruct([style |-> "Named",
             fields |-> <<Field(TVec(TString), FALSE), Field(TString, FALSE), Field(B, FALSE)>>,
             init |-> FALSE])

\* "", "foo", "bar", "world" and U+00E9.
StringSamples ==
    {<<>>, <<102, 111, 111>>, <<98, 97, 114>>, <<119, 111, 114, 108, 100>>, <<195, 169>>}

\* 1, 2 and u64::MAX.
U64Samples == {<<1>>, <<2>>, <<255, 255, 255, 255, 255, 255, 255, 255>>}

\* The values of A whose b is B::X { f }, and those whose b is B::Y(g).
AValues(bs) ==
    {[a |-> <<x, y, b>>] : x \in SeqsUpTo(StringSamples, MaxSeq), y \in StringSamples, b \in bs}

InitRoundTrip ==
    \/ Call("round_trip",
            AValues({[variant |-> 1, fields |-> <<f>>] : f \in SeqsUpTo(U64Samples, MaxSeq)}))
    \/ Call("round_trip",
            AValues({[variant |-> 2, fields |-> <<g>>] : g \in StringSamples}))

\* let data = a.try_to_vec().unwrap(); A::try_from_slice(&data)
RoundTrip ==
    /\ pc = "call" /\ op = "round_trip"
    /\ pc' = "done"
    /\ LET data == serialize(A, arg.a)
       IN  ret' = [data |-> data, actual_a |-> try_from_slice(A, data)]
    /\ UNCHANGED <<op, arg>>

SpecRoundTrip == InitRoundTrip /\ [][RoundTrip]_vars

(***************************************************************************)
(* C2.  Every value of A::<String, u64, String>, encoded by the derived    *)
(* encoder and decoded by try_from_slice, comes back equal to itself.      *)
(***************************************************************************)
GenericRoundTrip ==
    (op = "round_trip" /\ pc = "done") =>
        /\ ret.actual_a.ok
        /\ ret.actual_a.val = arg.a

\* The value of the test, {x: ["foo", "bar"], y: "world", b: X {f: [1, 2]}},
\* and its 48 bytes.
GenericRoundTripWitness ==
    /\ op = "round_trip" /\ pc = "done"
    /\ arg.a = << << <<102, 111, 111>>, <<98, 97, 114>> >>,
                  <<119, 111, 114, 108, 100>>,
                  [variant |-> 1, fields |-> << << <<1>>, <<2>> >> >>] >>
    /\ Len(ret.data) = 4 + 7 + 7 + 9 + 1 + 4 + 16
    /\ ret.actual_a.ok

(***************************************************************************)
(* Float decoding.  The inputs are bit patterns of the full width, their   *)
(* two most significant bytes drawn from the values that fill, clear or    *)
(* split the sign, exponent and top mantissa bits.                         *)
(***************************************************************************)
TopBytes == {0, 1, 127, 128, 240, 255}

LowBytes == {0, 1, 255}

F32Patterns == {<<b1, b2, b3, b4>> : b1 \in LowBytes, b2 \in LowBytes, b3 \in TopBytes, b4 \in TopBytes}

F64Patterns ==
    {<<b1, 0, 0, 0, 0, b6, b7, b8>> :
        b1 \in LowBytes, b6 \in LowBytes, b7 \in TopBytes, b8 \in TopBytes}

InitDecodeFloat ==
    Call("decode_float", {[w |-> 4, v |-> v] : v \in F32Patterns}
                            \cup {[w |-> 8, v |-> v] : v \in F64Patterns})

\* f32::deserialize(reader), f64::deserialize(reader)
DecodeFloat ==
    /\ pc = "call" /\ op = "decode_float"
    /\ pc' = "done"
    /\ ret' = deserialize_float(arg.w, arg.v, 0)
    /\ UNCHANGED <<op, arg>>

SpecFloat == InitDecodeFloat /\ [][DecodeFloat]_vars

\* The IEEE-754 fields of a little-endian pattern: the exponent bits are
\* all ones, the mantissa bits are not all zero.
ExponentAllOnes(v) ==
    IF Len(v) = 4 THEN v[4] % 128 = 127 /\ v[3] >= 128
    ELSE v[8] % 128 = 127 /\ v[7] >= 240

MantissaNonZero(v) ==
    IF Len(v) = 4 THEN v[3] % 128 # 0 \/ v[2] # 0 \/ v[1] # 0
    ELSE v[7] % 16 # 0 \/ \E i \in 1..6 : v[i] # 0

IsNaNPattern(v) == ExponentAllOnes(v) /\ MantissaNonZero(v)

(***************************************************************************)
(* C3.  Decoding a float fails with InvalidInput for every pattern that is *)
(* a NaN, whatever its sign and payload, and succeeds for every other      *)
(* pattern; a successful decode never yields a NaN.                        *)
(***************************************************************************)
NaNRejected ==
    (op = "decode_float" /\ pc = "done") =>
        /\ ret.ok <=> ~IsNaNPattern(arg.v)
        /\ ~ret.ok => ret.kind = "InvalidInput"
        /\ ret.ok => /\ to_le_bytes(ret.val.bits, arg.w) = arg.v
                     /\ ret.pos = arg.w

\* A negative signalling NaN with a payload of one bit (0xff800001) is
\* refused.
NaNRejectedWitness ==
    /\ op = "decode_float" /\ pc = "done"
    /\ arg.v = <<1, 0, 128, 255>>
    /\ ~ret.ok
    /\ ret.kind = "InvalidInput"

(***************************************************************************)
(* enum_ser on sum types of n variants.                                    *)
(***************************************************************************)
MaxVariants == 257

UnitVariants(n) == [variants |-> [i \in 1..n |-> [style |-> "Unit", fields |-> <<>>]]]

InitEnumSer == Call("enum_ser", {[n |-> n] : n \in 1..MaxVariants})

\* enum_ser(&input) for an enum of arg.n unit variants: the discriminant
\* byte each arm of the generated `match self` writes, in order.
EnumSer ==
    /\ pc = "call" /\ op = "enum_ser"
    /\ pc' = "done"
    /\ LET arms == enum_ser(UnitVariants(arg.n))
       IN  ret' = [i \in 1..Len(arms) |-> arms[i].variant_idx]
    /\ UNCHANGED <<op, arg>>

SpecEnumSer == InitEnumSer /\ [][EnumSer]_vars

(***************************************************************************)
(* C4.  The variant at position i is written with the discriminant byte i, *)
(* two variants of one type never with the same byte, and a type an        *)
(* encoder is generated for has at most 256 variants.                      *)
(***************************************************************************)
DiscriminantByPosition ==
    (op = "enum_ser" /\ pc = "done") =>
        /\ \A i \in 1..Len(ret) : ret[i] = i - 1
        /\ \A i, j \in 1..Len(ret) : i # j => ret[i] # ret[j]
        /\ arg.n <= 256

(***************************************************************************)
(* Derived Product types: a value encoded by the generated encoder and     *)
(* decoded back, and the generated decoder run on a buffer.                *)
(***************************************************************************)
MaxFields == 3

FieldValues == {0, 7}

\* struct inputs of u8 fields: the three styles, every choice of skip flags.
Products(inits) ==
    {[style |-> st, fields |-> fs, init |-> h] :
        st \in {"Named", "Unnamed"},
        fs \in UNION {[1..n -> {Field(TU8, FALSE), Field(TU8, TRUE)}] : n \in 1..MaxFields},
        h \in inits}
    \cup {[style |-> "Unit", fields |-> <<>>, init |-> h] : h \in inits}

InitStructRoundTrip ==
    Call("struct_round_trip",
         UNION {{[input |-> input, v |-> v] : v \in [1..Len(input.fields) -> FieldValues]} :
                    input \in Products({FALSE})})

\* v.serialize(&mut data), then Self::deserialize(&mut &data[..]), both as
\* struct_ser and struct_de generate them.
StructRoundTrip ==
    /\ pc = "call" /\ op = "struct_round_trip"
    /\ pc' = "done"
    /\ LET data == serialize(TStruct(arg.input), arg.v)
       IN  ret' = [data |-> data, back |-> deserialize(TStruct(arg.input), data, 0)]
    /\ UNCHANGED <<op, arg>>

InitStructDecode ==
    Call("struct_deserialize",
         {[input |-> input, v |-> v] :
             input \in Products(BOOLEAN), v \in SeqsUpTo(FieldValues, MaxFields)})

\* Self::deserialize(&mut &v[..]) as struct_de generates it.
StructDecode ==
    /\ pc = "call" /\ op = "struct_deserialize"
    /\ pc' = "done"
    /\ ret' = deserialize(TStruct(arg.input), arg.v, 0)
    /\ UNCHANGED <<op, arg>>

SpecStruct ==
    (InitStructRoundTrip \/ InitStructDecode) /\ [][StructRoundTrip \/ StructDecode]_vars

\* The values of the fields that are not flagged skip, in declaration order.
RECURSIVE Unskipped(_, _)
Unskipped(fields, v) ==
    IF fields = <<>> THEN <<>>
    ELSE (IF Head(fields).skip THEN <<>> ELSE <<Head(v)>>)
            \o Unskipped(Tail(fields), Tail(v))

(***************************************************************************)
(* C5.  For every Product type, named or positional: the encoder writes    *)
(* nothing for a field flagged skip and every other field in declaration   *)
(* order; the decoder reads nothing for a field flagged skip and sets it   *)
(* to its default; a round trip leaves every skipped field at its default. *)
(***************************************************************************)
SkipAbsentBothWays ==
    (op = "struct_round_trip" /\ pc = "done") =>
        /\ ret.data = Unskipped(arg.input.fields, arg.v)
        /\ ret.back.ok
        /\ ret.back.pos = Len(ret.data)
        /\ \A i \in 1..Len(arg.input.fields) :
              IF arg.input.fields[i].skip
              THEN /\ ret.back.trace[i] = Event("default", i)
                   /\ ret.back.val[i] = default(arg.input.fields[i].ty)
              ELSE /\ ret.back.trace[i] = Event("deserialize", i)
                   /\ ret.back.val[i] = arg.v[i]

(***************************************************************************)
(* C6.  The decoder struct_de generates for a type that names a method     *)
(* calls it exactly once on a successful decode, after every field is      *)
(* built (decoded or defaulted) and as the last step before returning; a   *)
(* failing field returns the error and the method is never called; with no *)
(* method named, none is called.                                           *)
(***************************************************************************)
InitCalls(trace) == {k \in 1..Len(trace) : trace[k].ev = "init"}

HookOnceAfterFields ==
    (op = "struct_deserialize" /\ pc = "done") =>
        LET n == Len(arg.input.fields)
        IN  /\ (arg.input.init /\ ret.ok) =>
                  /\ InitCalls(ret.trace) = {n + 1}
                  /\ Len(ret.trace) = n + 1
                  /\ \A i \in 1..n :
                        /\ ret.trace[i].field = i
                        /\ ret.trace[i].ev \in {"deserialize", "default"}
            /\ ~ret.ok =>
                  /\ InitCalls(ret.trace) = {}
                  /\ ret.kind = "UnexpectedEof"
            /\ ~arg.input.init => InitCalls(ret.trace) = {}

\* A struct of a decoded and a defaulted field, built and then initialised.
HookOnceAfterFieldsWitness ==
    /\ op = "struct_deserialize"
    /\ pc = "done"
    /\ arg.input.init
    /\ arg.input.style = "Named"
    /\ ret.ok
    /\ ret.val = <<7, 0>>
    /\ arg.input.fields[2].skip
    /\ ret.trace = <<Event("deserialize", 1), Event("default", 2), Event("init", 0)>>

(***************************************************************************)
(* Vec<T>::deserialize on a length prefix and the bytes after it.          *)
(***************************************************************************)
MaxLen == 3

Empty == TStruct([style |-> "Unit", fields |-> <<>>, init |-> FALSE])

Units == TStruct([style |-> "Unnamed", fields |-> <<Field(TUnit, FALSE)>>, init |-> FALSE])

Only == TEnum(UnitVariants(1))

\* Element types: of size zero in memory, and u8 and a two-variant enum.
ElemTypes == {TUnit, TArray(0, TU8), TArray(2, TUnit), Empty, Units, Only, TU8, TEnum(UnitVariants(2))}

InitVecDecode ==
    Call("vec_deserialize",
         {[t |-> t, n |-> n, v |-> to_le_bytes(ToBig(n), 4) \o rest] :
             t \in ElemTypes, n \in 0..MaxLen, rest \in SeqsUpTo({0, 1}, 2)})

\* Vec::<T>::deserialize(&mut &v[..]).
VecDecode ==
    /\ pc = "call" /\ op = "vec_deserialize"
    /\ pc' = "done"
    /\ ret' = deserialize(TVec(arg.t), arg.v, 0)
    /\ UNCHANGED <<op, arg>>

SpecVec == InitVecDecode /\ [][VecDecode]_vars

(***************************************************************************)
(* C7.  Decoding a Vec whose element type is zero-size, for every length n *)
(* the prefix declares, 0 included: exactly one element decode call is     *)
(* made, no byte after the 4-byte prefix is read, and on success the       *)
(* result has exactly n elements.                                          *)
(***************************************************************************)
ZeroSizeElements ==
    (op = "vec_deserialize" /\ pc = "done" /\ zero_sized(arg.t)) =>
        /\ ret.calls = 1
        /\ ret.pos = 4
        /\ ret.ok => Len(ret.val) = arg.n

(***************************************************************************)
(* SocketAddr::deserialize on a kind tag and the bytes after it.           *)
(***************************************************************************)
Tags == 0..255

BodyLens == {0, 5, 6, 7, 17, 18, 19}

\* n bytes counting up from b.
Counting(b, n) == [i \in 1..n |-> (b + i) % 256]

InitSocketDecode ==
    Call("socket_addr_deserialize",
         {[v |-> <<tag>> \o Counting(b, n)] : tag \in Tags, b \in {0, 200}, n \in BodyLens})

\* SocketAddr::deserialize(&mut &v[..]).
SocketDecode ==
    /\ pc = "call" /\ op = "socket_addr_deserialize"
    /\ pc' = "done"
    /\ ret' = deserialize(TSocketAddr, arg.v, 0)
    /\ UNCHANGED <<op, arg>>

SpecSocket == InitSocketDecode /\ [][SocketDecode]_vars

(***************************************************************************)
(* C9.  Decoding a SocketAddr reads one tag byte.  Tag 0: 4 address bytes  *)
(* and a 2-byte little-endian port, an IPv4 socket address.  Tag 1: 16     *)
(* address bytes and a 2-byte little-endian port, an IPv6 socket address   *)
(* with flow-info and scope-id 0.  Every tag 2..255 fails with an error of *)
(* the invalid-data kind and no further byte is read.                      *)
(***************************************************************************)
SocketAddrTags ==
    (op = "socket_addr_deserialize" /\ pc = "done") =>
        LET v == arg.v
        IN  /\ (v[1] = 0 /\ Len(v) >= 7) =>
                  /\ ret.ok /\ ret.pos = 7
                  /\ ret.val.v = "V4"
                  /\ ret.val.addr.ip = SubSeq(v, 2, 5)
                  /\ ToInt(ret.val.addr.port) = v[6] + 256 * v[7]
            /\ (v[1] = 1 /\ Len(v) >= 19) =>
                  /\ ret.ok /\ ret.pos = 19
                  /\ ret.val.v = "V6"
                  /\ ret.val.addr.ip = SubSeq(v, 2, 17)
                  /\ ToInt(ret.val.addr.port) = v[18] + 256 * v[19]
                  /\ ret.val.addr.flowinfo = 0
                  /\ ret.val.addr.scope_id = 0
            /\ v[1] >= 2 =>
                  /\ ~ret.ok
                  /\ ret.kind = "InvalidData"
                  /\ ret.pos = 1

(***************************************************************************)
(* Two buffers decoded as the same type by try_from_slice.                 *)
(***************************************************************************)
MaxCanon == 2

\* Types without a length prefix, and types with one.
PlainTypes == {TUnit, TU8, TInt(2), TBool, TOption(TU8), TResult(TU8, TU8), TArray(2, TU8)}

PrefixedTypes == {TString, TVec(TU8), TBTreeSet(TU8), TBTreeMap(TU8, TUnit)}

PlainBuffers == SeqsUpTo({0, 1, 2}, MaxCanon)

PrefixedBuffers ==
    {to_le_bytes(ToBig(n), 4) \o rest : n \in 0..MaxCanon, rest \in SeqsUpTo({1, 2}, MaxCanon)}

InitCanon ==
    \/ Call("try_from_slice_twice",
            {[t |-> t, v1 |-> v1, v2 |-> v2] :
                t \in PlainTypes, v1 \in PlainBuffers, v2 \in PlainBuffers})
    \/ Call("try_from_slice_twice",
            {[t |-> t, v1 |-> v1, v2 |-> v2] :
                t \in PrefixedTypes, v1 \in PrefixedBuffers, v2 \in PrefixedBuffers})

\* T::try_from_slice(v1) and T::try_from_slice(v2).
Canon ==
    /\ pc = "call" /\ op = "try_from_slice_twice"
    /\ pc' = "done"
    /\ ret' = [r1 |-> try_from_slice(arg.t, arg.v1), r2 |-> try_from_slice(arg.t, arg.v2)]
    /\ UNCHANGED <<op, arg>>

SpecCanon == InitCanon /\ [][Canon]_vars

\* Both buffers are accepted and give equal values.
SameValue == ret.r1.ok /\ ret.r2.ok /\ ret.r1.val = ret.r2.val

(***************************************************************************)
(* C8 as stated.  For every supported type, bool, Option, Result and the   *)
(* ordered set and map among them, two different buffers never both        *)
(* decode through try_from_slice to equal values.                          *)
(***************************************************************************)
DecodeCanonical ==
    (op = "try_from_slice_twice" /\ pc = "done" /\ SameValue) => arg.v1 = arg.v2

(***************************************************************************)
(* C8 as amended.  For the unit type, the integers, String, Vec<u8> and    *)
(* arrays of integers, two different buffers never both decode through     *)
(* try_from_slice to equal values.                                         *)
(***************************************************************************)
CanonicalTypes == {TUnit, TU8, TInt(2), TString, TVec(TU8), TArray(2, TU8)}

DecodeCanonicalOnIntegersAndSequences ==
    (op = "try_from_slice_twice" /\ pc = "done" /\ arg.t \in CanonicalTypes /\ SameValue)
        => arg.v1 = arg.v2

\* Two different buffers, both accepted as Vec<u8>, with different values.
DecodeCanonicalWitness ==
    /\ op = "try_from_slice_twice"
    /\ pc = "done"
    /\ arg.t = TVec(TU8)
    /\ arg.v1 # arg.v2
    /\ ret.r1.ok /\ ret.r2.ok
    /\ ret.r1.val = <<1, 2>>
    /\ ret.r2.val = <<2, 1>>

(***************************************************************************)
(* Composite types decoded from buffers that are too short or hold a NaN.  *)
(***************************************************************************)
MaxComposite == 8

Pair(t) ==
    TStruct([style |-> "Named", fields |-> <<Field(t, FALSE), Field(t, FALSE)>>,
             init |-> FALSE])

ElementTypes == {TU8, TFloat(4)}

Width(t) == IF t.k = "u8" THEN 1 ELSE 4

InitCompositeDecode ==
    \/ Call("composite_deserialize",
            {[t |-> t, e |-> e, n |-> 2, first |-> 0, v |-> v] :
                e \in ElementTypes, t \in {"Array", "Struct"},
                v \in SeqsUpTo({0, 255}, MaxComposite)})
    \/ Call("composite_deserialize",
            {[t |-> "Vec", e |-> e, n |-> n, first |-> 4,
              v |-> to_le_bytes(ToBig(n), 4) \o v] :
                e \in ElementTypes, n \in 0..2, v \in SeqsUpTo({0, 255}, MaxComposite)})

CompositeType(t, e) ==
    CASE t = "Array" -> TArray(2, e)
      [] t = "Struct" -> Pair(e)
      [] t = "Vec" -> TVec(e)

\* <[T; 2]>::deserialize, Pair::<T>::deserialize or Vec::<T>::deserialize
\* on &mut &v[..].
CompositeDecode ==
    /\ pc = "call" /\ op = "composite_deserialize"
    /\ pc' = "done"
    /\ ret' = deserialize(CompositeType(arg.t, arg.e), arg.v, 0)
    /\ UNCHANGED <<op, arg>>

SpecComposite == InitCompositeDecode /\ [][CompositeDecode]_vars

\* What is wrong with element i (from 0) of the arg.n elements laid out in
\* arg.v from offset arg.first: it is cut short, or it is a NaN.
ElementFault(i) ==
    LET w     == Width(arg.e)
        start == arg.first + i * w
    IN  IF start + w > Len(arg.v) THEN "UnexpectedEof"
        ELSE IF arg.e.k = "float" /\ IsNaNPattern(SubSeq(arg.v, start + 1, start + w))
        THEN "InvalidInput"
        ELSE "none"

Faulty == {i \in 0..(arg.n - 1) : ElementFault(i) # "none"}

FirstFaulty == CHOOSE i \in Faulty : \A j \in Faulty : i <= j

\* The element decode calls a composite decode made.
Decoded(r) == IF "calls" \in DOMAIN r THEN r.calls ELSE Len(r.trace)

(***************************************************************************)
(* C10.  Whenever the decode of an array, a Vec or a derived Product fails *)
(* because the decode of an element or field failed, the error names the   *)
(* index of the first failing element, no element after it is decoded, and *)
(* the error keeps the kind of the element's error: a short read stays     *)
(* UnexpectedEof, a NaN stays InvalidInput.                                *)
(***************************************************************************)
ElementErrorsIndexedSameKind ==
    (op = "composite_deserialize" /\ pc = "done" /\ Faulty # {}) =>
        /\ ~ret.ok
        /\ Decoded(ret) = FirstFaulty + 1
        /\ ToString(FirstFaulty) \in Range(ret.msg)
        /\ ret.kind = ElementFault(FirstFaulty)

(***************************************************************************)
(* The two generators run on the same ItemStruct.                          *)
(***************************************************************************)
InitDerive == Call("derive", {[input |-> input] : input \in Products(BOOLEAN)})

\* struct_ser(&input) and struct_de(&input): the fields the generated
\* serialize writes, and the fields the generated deserialize reads from
\* the reader, both in the order of the generated statements.
Derive ==
    /\ pc = "call" /\ op = "derive"
    /\ pc' = "done"
    /\ LET body         == struct_ser(arg.input)
           return_value == struct_de(arg.input).return_value
       IN  ret' = [written |-> body,
                   read |-> SelectSeq(AllFields(arg.input.fields),
                                      LAMBDA i : return_value[i] = "deserialize")]
    /\ UNCHANGED <<op, arg>>

SpecDerive == (InitDerive \/ InitStructRoundTrip) /\ [][Derive \/ StructRoundTrip]_vars

\* The fields a run of the generated deserialize read, in order.
FieldsRead(trace) ==
    LET reads == SelectSeq(trace, LAMBDA e : e.ev = "deserialize")
    IN  [k \in 1..Len(reads) |-> reads[k].field]

(***************************************************************************)
(* C11.  For every Product type description (named, positional or unit,    *)
(* any skip flags), the ordered list of fields the encoder of struct_ser   *)
(* writes is the ordered list of fields the decoder of struct_de reads, so *)
(* the decoder consumes exactly the bytes the encoder produced.            *)
(***************************************************************************)
SameFieldsWrittenAndRead ==
    /\ (op = "derive" /\ pc = "done") => ret.written = ret.read
    /\ (op = "struct_round_trip" /\ pc = "done") =>
          /\ ret.back.ok
          /\ ret.back.pos = Len(ret.data)
          /\ Len(ret.data) = Len(FieldsRead(ret.back.trace))
          /\ \A k \in 1..Len(ret.data) :
                ret.data[k] = arg.v[FieldsRead(ret.back.trace)[k]]

\* Positional fields, the first flagged skip: both are written and read.
SameFieldsWrittenAndReadWitness ==
    /\ op = "derive"
    /\ pc = "done"
    /\ arg.input.style = "Unnamed"
    /\ Len(arg.input.fields) = 2
    /\ arg.input.fields[1].skip
    /\ ret.written = <<1, 2>>
    /\ ret.read = <<1, 2>>

(***************************************************************************)
(* Every call together.                                                    *)
(***************************************************************************)
Init ==
    \/ InitSlice
    \/ InitRoundTrip
    \/ InitDecodeFloat
    \/ InitEnumSer
    \/ InitStructRoundTrip
    \/ InitStructDecode
    \/ InitVecDecode
    \/ InitCanon
    \/ InitSocketDecode
    \/ InitCompositeDecode
    \/ InitDerive

Next ==
    \/ TryFromSlice
    \/ RoundTrip
    \/ DecodeFloat
    \/ EnumSer
    \/ StructRoundTrip
    \/ StructDecode
    \/ VecDecode
    \/ Canon
    \/ SocketDecode
    \/ CompositeDecode
    \/ Derive

Spec == Init /\ [][Next]_vars

====
